---- MODULE Spec2Model ----
(***************************************************************************)
(* Verification model of the pdsl_core storage collections:                *)
(*   - StorageMap  (pdsl_core/src/collections/storage_map.rs)              *)
(*   - Stash, Iter (pdsl_core/src/storage/collections/stash/stash.rs)      *)
(*   - TypedCell   (pdsl_core/src/storage/cell/typed_cell.rs)              *)
(*   - the ERC-20 example contract (examples/core/erc20/src/lib.rs)        *)
(* Each public operation is one action; the quadratic probe and the stash  *)
(* put/take algorithms are operators translated from the Rust source.      *)
(***************************************************************************)
EXTENDS Integers, Naturals, Sequences, FiniteSets, TLC

(***************************************************************************)
(* Bounds of the model.                                                    *)
(***************************************************************************)
\* number of StorageMap calls explored in one run
MaxMapOps == 5
\* number of Stash calls explored in one run
MaxStashOps == 8
\* number of calls explored on the pair of stashes updated in tandem
MaxTwinOps == 6
\* number of put and take calls made before a stash is iterated
MaxIterOps == 9
\* number of calls explored on the typed cells
MaxCellOps == 4
\* number of calls made to the deployed ERC-20 contract
MaxErcOps == 3

(***************************************************************************)
(* u32.  A u32 that can reach the top of its range (a probe index) is the  *)
(* pair <<high, low>> of its 16-bit halves, so that wrapping arithmetic    *)
(* on it is exact.                                                         *)
(***************************************************************************)
Half == 65536

\* u32::wrapping_add(x, n) for a small n >= 0
wrapping_add(x, n) ==
    LET low == x[2] + (n % Half)
        high == x[1] + (n \div Half) + (low \div Half)
    IN  <<high % Half, low % Half>>

(***************************************************************************)
(* Option<T>                                                               *)
(***************************************************************************)
None == [some |-> FALSE]
Some(v) == [some |-> TRUE, val |-> v]

(***************************************************************************)
(* Keys and values used to exercise the map.  A key is an identity `id`    *)
(* that `Eq` and the hash look at, and a `tag` that they do not look at    *)
(* (two keys can be == without being identical).                           *)
(***************************************************************************)
KeyIds == {"A", "B", "C", "D"}
KeyTags == [A |-> {0, 1}, B |-> {0}, C |-> {0}, D |-> {0}]
MapKeys == {k \in [id : KeyIds, tag : {0, 1}] : k.tag \in KeyTags[k.id]}
MapVals == {1, 2}

\* K: Eq
KeyEq(a, b) == a.id = b.id

\* hash::keccak256(key)[0..4]: A, B and D share the probe start 2^32 - 1,
\* C starts one slot later (at the wrapped index 0).
keccak256_4(key) ==
    IF key.id = "C" THEN <<0, 0, 0, 0>> ELSE <<255, 255, 255, 255>>

\* Converts the given bytes into a u32 value, first byte most significant.
bytes_to_u32(bytes) ==
    <<bytes[1] * 256 + bytes[2], bytes[3] * 256 + bytes[4]>>

(***************************************************************************)
(* SyncedChunk<T>: a partial function from u32 index to a stored value.    *)
(* An index outside the domain is a slot that holds nothing.               *)
(***************************************************************************)
ChunkGet(chunk, n) == IF n \in DOMAIN chunk THEN Some(chunk[n]) ELSE None

ChunkSet(chunk, n, v) ==
    [i \in (DOMAIN chunk) \cup {n} |-> IF i = n THEN v ELSE chunk[i]]

ChunkRemove(chunk, n) == [i \in (DOMAIN chunk) \ {n} |-> chunk[i]]

EmptyChunk == [i \in {} |-> 0]

(***************************************************************************)
(* StorageMap entries                                                      *)
(***************************************************************************)
Occupied(key, val) == [tag |-> "Occupied", key |-> key, val |-> val]
Removed == [tag |-> "Removed"]

VARIABLES
    len,        \* StorageMap::len  (Synced<u32>)
    entries,    \* StorageMap::entries (SyncedChunk<Entry<K, V>>)
    call,       \* the last call made on the map
    ret,        \* what that call returned
    hung,       \* TRUE when that call never returns
    last,       \* per key id: the value of the last returned insert, None after a remove
    mapOps,     \* number of calls made
    stage,      \* how far the calls so far follow the collision scenario
    debug,      \* TRUE in a build with debug assertions
    stash,      \* a Stash<T>: [next_vacant, len, max_len, entries]
    scall,      \* the last call made on the stash, with what it returned
    sprev,      \* the call before that
    peak,       \* the largest number of items the stash has held at once
    panicked,   \* TRUE when the last stash call aborted
    stashOps,   \* number of calls made on the stash
    primary,    \* two stashes updated in tandem
    replica,
    tcall,      \* the last call made on both, with what each returned
    twinOps,    \* number of calls made on the pair
    istash,     \* the stash that is iterated over
    iter,       \* the Iter over it, once created: Some([begin, end, yielded])
    item,       \* what the last next / next_back returned
    icall,      \* the last call made on istash or on its iterator
    iterOps,    \* number of put and take calls made on istash
    iterPuts,   \* number of put calls among them
    envStorage, \* the contract storage of the environment: Key -> Option<bytes>
    ccall,      \* the last call made on a typed cell, with what it returned
    clast,      \* per cell: its last store or clear, and how many stores it had
    cellOps,    \* number of calls made on the typed cells
    durable,    \* the ERC-20 token as the contract storage holds it
    ecall,      \* the last call of the contract: action, outcome, state at its end
    ercOps      \* number of calls made to the contract

mapVars == <<len, entries, call, ret, hung, last, mapOps, stage>>
stashVars == <<stash, scall, sprev, peak, panicked, stashOps>>
twinVars == <<primary, replica, tcall, twinOps>>
iterVars == <<istash, iter, item, icall, iterOps, iterPuts>>
cellVars == <<envStorage, ccall, clast, cellOps>>
ercVars == <<durable, ecall, ercOps>>
extVars == <<iterVars, cellVars, ercVars>>
vars == <<mapVars, stashVars, twinVars, debug, extVars>>

\* StorageMap::len
MapLen == len

\* StorageMap::is_empty
MapIsEmpty == MapLen = 0

(***************************************************************************)
(* StorageMap::probe.  The result is                                       *)
(*   [kind |-> "match", index]   for (true, probe_index)                   *)
(*   [kind |-> "free", index]    for (false, probe_index)                  *)
(*   [kind |-> "diverge", index] when the loop repeats the same iteration  *)
(*                               for ever (`continue 'outer` with          *)
(*                               probe_hops and probe_offset unchanged).   *)
(***************************************************************************)
RECURSIVE probe_loop(_, _, _, _, _)
probe_loop(ents, key, inserting, probe_start, probe_hops) ==
    LET probe_offset == probe_hops * probe_hops
        probe_index == wrapping_add(probe_start, probe_offset)
        slot == ChunkGet(ents, probe_index)
    IN  IF slot.some /\ slot.val.tag = "Occupied"
        THEN IF KeyEq(key, slot.val.key)
             THEN [kind |-> "match", index |-> probe_index]
             ELSE probe_loop(ents, key, inserting, probe_start, probe_hops + 1)
        ELSE IF inserting
             THEN [kind |-> "free", index |-> probe_index]
             ELSE [kind |-> "diverge", index |-> probe_index]

probe(ents, key, inserting) ==
    probe_loop(ents, key, inserting, bytes_to_u32(keccak256_4(key)), 0)

probe_inserting(ents, key) == probe(ents, key, TRUE)

probe_inspecting(ents, key) == probe(ents, key, FALSE)

(***************************************************************************)
(* StorageMap::entry and StorageMap::get, as results                       *)
(*   [returns |-> TRUE, value |-> Option]  or  [returns |-> FALSE]         *)
(***************************************************************************)
Returns(v) == [returns |-> TRUE, value |-> v]
NoReturn == [returns |-> FALSE]

entry(ents, key) ==
    LET p == probe_inspecting(ents, key)
    IN  IF p.kind = "diverge" THEN NoReturn
        ELSE Returns(ChunkGet(ents, p.index))

get(ents, key) ==
    LET e == entry(ents, key)
    IN  IF ~e.returns THEN NoReturn
        ELSE IF e.value.some /\ e.value.val.tag = "Occupied"
             THEN Returns(Some(e.value.val.val))
             ELSE Returns(None)

(***************************************************************************)
(* The map after construction from a fresh key region.                     *)
(***************************************************************************)
MapInit ==
    /\ len = 0
    /\ entries = EmptyChunk
    /\ call = [op |-> "new"]
    /\ ret = None
    /\ hung = FALSE
    /\ last = [i \in KeyIds |-> None]
    /\ mapOps = 0
    /\ stage = 0

(***************************************************************************)
(* The collision scenario: on an empty map insert(A), insert(B),           *)
(* remove(A), insert(D), with any number of get calls in between.  `stage` *)
(* counts the calls of the scenario made so far, and is ScenarioOff once   *)
(* another insert or remove has been made.                                 *)
(***************************************************************************)
ScenarioCalls == <<[op |-> "insert", id |-> "A"], [op |-> "insert", id |-> "B"],
                   [op |-> "remove", id |-> "A"], [op |-> "insert", id |-> "D"]>>

ScenarioOff == 0 - 1

ScenarioStep(st, op, key) ==
    IF st >= 0 /\ st < Len(ScenarioCalls)
    THEN IF ScenarioCalls[st + 1] = [op |-> op, id |-> key.id]
         THEN st + 1
         ELSE ScenarioOff
    ELSE ScenarioOff

\* StorageMap::insert
Insert(key, val) ==
    /\ ~hung
    /\ mapOps < MaxMapOps
    /\ LET p == probe_inserting(entries, key)
           old == ChunkGet(entries, p.index)
       IN  IF p.kind = "match"
           THEN /\ entries' = ChunkSet(ChunkRemove(entries, p.index), p.index,
                                       Occupied(key, val))
                /\ ret' = IF old.val.tag = "Occupied" THEN Some(old.val.val) ELSE None
           ELSE /\ entries' = ChunkSet(entries, p.index, Occupied(key, val))
                /\ ret' = None
    /\ call' = [op |-> "insert", key |-> key, val |-> val]
    /\ last' = [last EXCEPT ![key.id] = Some(val)]
    /\ stage' = ScenarioStep(stage, "insert", key)
    /\ mapOps' = mapOps + 1
    /\ UNCHANGED <<len, hung>>
    /\ UNCHANGED <<stashVars, twinVars, debug, extVars>>

\* StorageMap::remove
Remove(key) ==
    /\ ~hung
    /\ mapOps < MaxMapOps
    /\ call' = [op |-> "remove", key |-> key]
    /\ mapOps' = mapOps + 1
    /\ LET p == probe_inspecting(entries, key)
           old == ChunkGet(entries, p.index)
       IN  IF p.kind = "diverge"
           THEN /\ hung' = TRUE
                /\ UNCHANGED <<len, entries, ret, last, stage>>
           ELSE /\ entries' = ChunkRemove(entries, p.index)
                /\ ret' = IF old.some /\ old.val.tag = "Occupied"
                          THEN Some(old.val.val)
                          ELSE None
                /\ last' = [last EXCEPT ![key.id] = None]
                /\ stage' = ScenarioStep(stage, "remove", key)
                /\ UNCHANGED <<len, hung>>
    /\ UNCHANGED <<stashVars, twinVars, debug, extVars>>

\* StorageMap::get
Get(key) ==
    /\ ~hung
    /\ mapOps < MaxMapOps
    /\ call' = [op |-> "get", key |-> key]
    /\ mapOps' = mapOps + 1
    /\ LET g == get(entries, key)
       IN  IF ~g.returns
           THEN /\ hung' = TRUE
                /\ UNCHANGED ret
           ELSE /\ ret' = g.value
                /\ UNCHANGED hung
    /\ UNCHANGED <<len, entries, last, stage>>
    /\ UNCHANGED <<stashVars, twinVars, debug, extVars>>

MapNext ==
    \/ \E key \in MapKeys, val \in MapVals : Insert(key, val)
    \/ \E key \in MapKeys : Remove(key)
    \/ \E key \in MapKeys : Get(key)

(***************************************************************************)
(* Stash                                                                   *)
(***************************************************************************)
StashVals == {10, 20, 30}
\* indices handed to take: every slot a run can allocate, and one past them
TakeIdx == 0 .. 4

Vacant(next) == [tag |-> "Vacant", next |-> next]
StashOccupied(val) == [tag |-> "Occupied", val |-> val]

\* SyncCell<u32>::get().unwrap_or(&0)
unwrap_or(cell, default) == IF cell.some THEN cell.val ELSE default

\* Stash::new_unchecked on a fresh key region: no cell holds anything
NewStash ==
    [next_vacant |-> None, len |-> None, max_len |-> None, entries |-> EmptyChunk]

\* Stash::len
stash_len(st) == unwrap_or(st.len, 0)

\* Stash::max_len
max_len(st) == unwrap_or(st.max_len, 0)

\* Stash::is_empty
is_empty(st) == stash_len(st) = 0

\* Stash::next_vacant
next_vacant(st) == unwrap_or(st.next_vacant, 0)

\* Stash::get
stash_get(st, n) ==
    LET e == ChunkGet(st.entries, n)
    IN  IF e.some /\ e.val.tag = "Occupied" THEN Some(e.val.val) ELSE None

\* the outcome of a call: it aborts, or returns `ret` and leaves the stash `st`
Abort(why) == [panic |-> TRUE, why |-> why]
Done(st, r) == [panic |-> FALSE, st |-> st, ret |-> r]

\* put as it would be if the append branch forgot to raise max_len
put_without_max_len(st, val, dbg) ==
    LET current_vacant == unwrap_or(st.next_vacant, 0)
        old == ChunkGet(st.entries, current_vacant)
    IN  IF dbg /\ ~(current_vacant <= stash_len(st))
        THEN Abort("debug_assert")
        ELSE IF current_vacant = stash_len(st)
        THEN Done([st EXCEPT
                     !.entries = ChunkSet(st.entries, current_vacant, StashOccupied(val)),
                     !.next_vacant = Some(current_vacant + 1),
                     !.len = Some(stash_len(st) + 1)],
                  current_vacant)
        ELSE IF ~old.some
        THEN Abort("expect")
        ELSE IF old.val.tag = "Occupied"
        THEN Abort("unreachable")
        ELSE Done([st EXCEPT
                     !.entries = ChunkSet(st.entries, current_vacant, StashOccupied(val)),
                     !.next_vacant = Some(old.val.next),
                     !.len = Some(stash_len(st) + 1)],
                  current_vacant)

\* put as it would be if it handed out the index of a slot that already
\* holds an equal value instead of allocating one
put_sharing_equal_values(st, val, dbg) ==
    LET current_vacant == unwrap_or(st.next_vacant, 0)
        old == ChunkGet(st.entries, current_vacant)
        same == {n \in DOMAIN st.entries : st.entries[n] = StashOccupied(val)}
    IN  IF dbg /\ ~(current_vacant <= stash_len(st))
        THEN Abort("debug_assert")
        ELSE IF same # {}
        THEN Done(st, CHOOSE n \in same : \A m \in same : n <= m)
        ELSE IF current_vacant = stash_len(st)
        THEN Done([st EXCEPT
                     !.entries = ChunkSet(st.entries, current_vacant, StashOccupied(val)),
                     !.next_vacant = Some(current_vacant + 1),
                     !.max_len = Some(max_len(st) + 1),
                     !.len = Some(stash_len(st) + 1)],
                  current_vacant)
        ELSE IF ~old.some
        THEN Abort("expect")
        ELSE IF old.val.tag = "Occupied"
        THEN Abort("unreachable")
        ELSE Done([st EXCEPT
                     !.entries = ChunkSet(st.entries, current_vacant, StashOccupied(val)),
                     !.next_vacant = Some(old.val.next),
                     !.len = Some(stash_len(st) + 1)],
                  current_vacant)

\* Stash::put; dbg is TRUE when debug assertions are compiled in
put(st, val, dbg) ==
    LET current_vacant == unwrap_or(st.next_vacant, 0)
        old == ChunkGet(st.entries, current_vacant)
    IN  IF dbg /\ ~(current_vacant <= stash_len(st))
        THEN Abort("debug_assert")
        ELSE IF current_vacant = stash_len(st)
        THEN Done([st EXCEPT
                     !.entries = ChunkSet(st.entries, current_vacant, StashOccupied(val)),
                     !.next_vacant = Some(current_vacant + 1),
                     !.max_len = Some(max_len(st) + 1),
                     !.len = Some(stash_len(st) + 1)],
                  current_vacant)
        ELSE IF ~old.some
        THEN Abort("expect")
        ELSE IF old.val.tag = "Occupied"
        THEN Abort("unreachable")
        ELSE Done([st EXCEPT
                     !.entries = ChunkSet(st.entries, current_vacant, StashOccupied(val)),
                     !.next_vacant = Some(old.val.next),
                     !.len = Some(stash_len(st) + 1)],
                  current_vacant)

\* take as it would be if it pushed the index on the free list without
\* looking at what the slot holds
take_relinking_vacant(st, n, dbg) ==
    LET e == ChunkGet(st.entries, n)
    IN  IF ~e.some \/ e.val.tag = "Vacant"
        THEN Done([st EXCEPT
                     !.entries = ChunkSet(st.entries, n, Vacant(next_vacant(st))),
                     !.next_vacant = Some(n)],
                  None)
        ELSE IF dbg /\ ~(stash_len(st) >= 1)
        THEN Abort("debug_assert")
        ELSE Done([st EXCEPT
                     !.entries = ChunkSet(st.entries, n, Vacant(next_vacant(st))),
                     !.next_vacant = Some(n),
                     !.len = Some(stash_len(st) - 1)],
                  Some(e.val.val))

\* Stash::take
take(st, n, dbg) ==
    LET e == ChunkGet(st.entries, n)
    IN  IF ~e.some \/ e.val.tag = "Vacant"
        THEN Done(st, None)
        ELSE IF dbg /\ ~(stash_len(st) >= 1)
        THEN Abort("debug_assert")
        ELSE Done([st EXCEPT
                     !.entries = ChunkSet(st.entries, n, Vacant(next_vacant(st))),
                     !.next_vacant = Some(n),
                     !.len = Some(stash_len(st) - 1)],
                  Some(e.val.val))

\* the number of items the stash holds: its Occupied entries
Items(st) == Cardinality({n \in DOMAIN st.entries : st.entries[n].tag = "Occupied"})

Max(a, b) == IF a >= b THEN a ELSE b

StashInit ==
    /\ stash = NewStash
    /\ scall = [op |-> "new"]
    /\ sprev = [op |-> "new"]
    /\ peak = 0
    /\ panicked = FALSE
    /\ stashOps = 0

\* a call of Stash::put
Put(val) ==
    /\ ~panicked
    /\ stashOps < MaxStashOps
    /\ stashOps' = stashOps + 1
    /\ sprev' = scall
    /\ LET r == put(stash, val, debug)
       IN  IF r.panic
           THEN /\ panicked' = TRUE
                /\ scall' = [op |-> "put", panic |-> r.why]
                /\ UNCHANGED <<stash, peak>>
           ELSE /\ stash' = r.st
                /\ scall' = [op |-> "put", ret |-> r.ret]
                /\ peak' = Max(peak, Items(r.st))
                /\ UNCHANGED panicked
    /\ UNCHANGED <<mapVars, twinVars, debug, extVars>>

\* a call of Stash::take
Take(n) ==
    /\ ~panicked
    /\ stashOps < MaxStashOps
    /\ stashOps' = stashOps + 1
    /\ sprev' = scall
    /\ LET r == take(stash, n, debug)
       IN  IF r.panic
           THEN /\ panicked' = TRUE
                /\ scall' = [op |-> "take", n |-> n, panic |-> r.why]
                /\ UNCHANGED stash
           ELSE /\ stash' = r.st
                /\ scall' = [op |-> "take", n |-> n, ret |-> r.ret]
                /\ UNCHANGED panicked
    /\ UNCHANGED <<peak, mapVars, twinVars, debug, extVars>>

StashNext ==
    \/ \E val \in StashVals : Put(val)
    \/ \E n \in TakeIdx : Take(n)

(***************************************************************************)
(* Two stashes fed the same calls, with values of their own                *)
(***************************************************************************)
\* the values put into the two stashes
TwinVals == {10, 20}

TwinInit ==
    /\ primary = NewStash
    /\ replica = NewStash
    /\ tcall = [op |-> "new"]
    /\ twinOps = 0

Outcome(r) ==
    IF r.panic THEN [panic |-> TRUE, why |-> r.why] ELSE [panic |-> FALSE, ret |-> r.ret]

\* neither stash has aborted a call
TwinLive == IF tcall.op = "new" THEN TRUE ELSE ~tcall.first.panic /\ ~tcall.second.panic

\* put(a) on the one and put(b) on the other
TwinPut(a, b) ==
    /\ TwinLive
    /\ twinOps < MaxTwinOps
    /\ twinOps' = twinOps + 1
    /\ LET r1 == put(primary, a, debug)
           r2 == put(replica, b, debug)
       IN  /\ tcall' = [op |-> "put", first |-> Outcome(r1), second |-> Outcome(r2)]
           /\ primary' = IF r1.panic THEN primary ELSE r1.st
           /\ replica' = IF r2.panic THEN replica ELSE r2.st
    /\ UNCHANGED <<mapVars, stashVars, debug, extVars>>

\* take(n) on both
TwinTake(n) ==
    /\ TwinLive
    /\ twinOps < MaxTwinOps
    /\ twinOps' = twinOps + 1
    /\ LET r1 == take(primary, n, debug)
           r2 == take(replica, n, debug)
       IN  /\ tcall' = [op |-> "take", n |-> n,
                        first |-> Outcome(r1), second |-> Outcome(r2)]
           /\ primary' = IF r1.panic THEN primary ELSE r1.st
           /\ replica' = IF r2.panic THEN replica ELSE r2.st
    /\ UNCHANGED <<mapVars, stashVars, debug, extVars>>

TwinNext ==
    \/ \E a \in TwinVals, b \in TwinVals : TwinPut(a, b)
    \/ \E n \in TakeIdx : TwinTake(n)

(***************************************************************************)
(* Iter: the iterator over the enumerated values of a stash                *)
(***************************************************************************)
\* Iter::new as it would be if it ended the range at len() instead of max_len()
iter_new_up_to_len(st) == [begin |-> 0, end |-> stash_len(st), yielded |-> 0]

\* Iter::new
iter_new(st) == [begin |-> 0, end |-> max_len(st), yielded |-> 0]

\* what a call of next / next_back leaves and returns
Yield(it, x) == [it |-> it, item |-> x]

\* Iter::next, the while loop
RECURSIVE next_loop(_, _)
next_loop(it, st) ==
    IF it.begin < it.end
    THEN LET cur == it.begin
             elem == stash_get(st, cur)
         IN  IF elem.some
             THEN Yield([it EXCEPT !.begin = cur + 1, !.yielded = it.yielded + 1],
                        Some(<<cur, elem.val>>))
             ELSE next_loop([it EXCEPT !.begin = cur + 1], st)
    ELSE Yield(it, None)

\* Iter::next.  Its debug_assert!(begin <= end) cannot fail: begin and end
\* start as 0 and max_len() and move towards each other only while begin < end.
iter_next(it, st) ==
    IF it.yielded = stash_len(st) THEN Yield(it, None) ELSE next_loop(it, st)

\* Iter::next_back, the while loop
RECURSIVE next_back_loop(_, _)
next_back_loop(it, st) ==
    IF it.begin < it.end
    THEN LET end == it.end - 1
             elem == stash_get(st, end)
         IN  IF elem.some
             THEN Yield([it EXCEPT !.end = end, !.yielded = it.yielded + 1],
                        Some(<<end, elem.val>>))
             ELSE next_back_loop([it EXCEPT !.end = end], st)
    ELSE Yield(it, None)

\* Iter::next_back (the same debug_assert as in next)
iter_next_back(it, st) ==
    IF it.yielded = stash_len(st) THEN Yield(it, None) ELSE next_back_loop(it, st)

\* Iter::size_hint
size_hint(it, st) ==
    LET remaining == stash_len(st) - it.yielded
    IN  <<remaining, Some(remaining)>>

\* the items that calls of next yield until it returns None
RECURSIVE DrainNext(_, _)
DrainNext(it, st) ==
    LET r == iter_next(it, st)
    IN  IF r.item.some THEN <<r.item.val>> \o DrainNext(r.it, st) ELSE <<>>

\* the items that calls of next_back yield until it returns None
RECURSIVE DrainNextBack(_, _)
DrainNextBack(it, st) ==
    LET r == iter_next_back(it, st)
    IN  IF r.item.some THEN <<r.item.val>> \o DrainNextBack(r.it, st) ELSE <<>>

IterInit ==
    /\ istash = NewStash
    /\ iter = None
    /\ item = None
    /\ icall = [op |-> "new", panic |-> FALSE]
    /\ iterOps = 0
    /\ iterPuts = 0

\* the value of the k-th put: 10, 20, 30 in rotation.  Stash<T> and Iter
\* never look into a value, so which values are put changes nothing but the
\* values yielded; the rotation makes neighbouring elements differ.
IterVal(k) == 10 * ((k % 3) + 1)

\* Stash::put on the stash, while no iterator borrows it
IterPut ==
    /\ ~icall.panic
    /\ ~iter.some
    /\ iterOps < MaxIterOps
    /\ iterOps' = iterOps + 1
    /\ iterPuts' = iterPuts + 1
    /\ LET r == put(istash, IterVal(iterPuts), debug)
       IN  /\ icall' = [op |-> "put", panic |-> r.panic]
           /\ istash' = IF r.panic THEN istash ELSE r.st
    /\ UNCHANGED <<iter, item>>
    /\ UNCHANGED <<mapVars, stashVars, twinVars, debug, cellVars, ercVars>>

\* Stash::take on the stash, while no iterator borrows it
IterTake(n) ==
    /\ ~icall.panic
    /\ ~iter.some
    /\ iterOps < MaxIterOps
    /\ iterOps' = iterOps + 1
    /\ LET r == take(istash, n, debug)
       IN  /\ icall' = [op |-> "take", panic |-> r.panic]
           /\ istash' = IF r.panic THEN istash ELSE r.st
    /\ UNCHANGED <<iter, item, iterPuts>>
    /\ UNCHANGED <<mapVars, stashVars, twinVars, debug, cellVars, ercVars>>

\* Stash::iter
IterNew ==
    /\ ~icall.panic
    /\ ~iter.some
    /\ iter' = Some(iter_new(istash))
    /\ icall' = [op |-> "iter", panic |-> FALSE]
    /\ UNCHANGED <<istash, item, iterOps, iterPuts>>
    /\ UNCHANGED <<mapVars, stashVars, twinVars, debug, cellVars, ercVars>>

\* a call of Iter::next
IterNext ==
    /\ iter.some
    /\ LET r == iter_next(iter.val, istash)
       IN  /\ iter' = Some(r.it)
           /\ item' = r.item
    /\ icall' = [op |-> "next", panic |-> FALSE]
    /\ UNCHANGED <<istash, iterOps, iterPuts>>
    /\ UNCHANGED <<mapVars, stashVars, twinVars, debug, cellVars, ercVars>>

\* a call of Iter::next_back
IterNextBack ==
    /\ iter.some
    /\ LET r == iter_next_back(iter.val, istash)
       IN  /\ iter' = Some(r.it)
           /\ item' = r.item
    /\ icall' = [op |-> "next_back", panic |-> FALSE]
    /\ UNCHANGED <<istash, iterOps, iterPuts>>
    /\ UNCHANGED <<mapVars, stashVars, twinVars, debug, cellVars, ercVars>>

IterSpecNext ==
    \/ IterPut
    \/ \E n \in TakeIdx : IterTake(n)
    \/ IterNew
    \/ IterNext
    \/ IterNextBack

(***************************************************************************)
(* TypedCell<i32> over the contract storage of the environment.            *)
(* A byte string is a sequence of numbers in 0 .. 255.                     *)
(***************************************************************************)
\* the keys of the cells: Key([0x42; 32]) of the test and a second one
CellKeys == {"0x42", "0x07"}

\* the i32 values stored
CellVals == {0 - 2147483647 - 1, 0 - 129, 0 - 1, 0, 5, 256, 2147483647}

\* <i32 as Encode>::encode: the four bytes of the two's complement
\* representation, least significant first
encode_i32(v) ==
    << v % 256, (v \div 256) % 256, (v \div 65536) % 256, (v \div 16777216) % 256 >>

\* <i32 as Decode>::decode: None when fewer than four bytes are left
decode_i32(bytes) ==
    IF Len(bytes) < 4 THEN None
    ELSE LET top == IF bytes[4] >= 128 THEN bytes[4] - 256 ELSE bytes[4]
         IN  Some(bytes[1] + 256 * bytes[2] + 65536 * bytes[3] + 16777216 * top)

\* Env::load, Env::store and Env::clear on the storage `env`
env_load(env, key) == env[key]
env_store(env, key, value) == [env EXCEPT ![key] = Some(value)]
env_clear(env, key) == [env EXCEPT ![key] = None]

\* RawCell::load, RawCell::store and RawCell::clear of the cell at `key`
raw_load(env, key) == env_load(env, key)
raw_store(env, key, bytes) == env_store(env, key, bytes)
raw_clear(env, key) == env_clear(env, key)

\* TypedCell::load
typed_load(env, key) ==
    LET bytes == raw_load(env, key)
    IN  IF bytes.some THEN decode_i32(bytes.val) ELSE None

\* TypedCell::store as it would be if it wrote only the low byte of the value
typed_store_low_byte(env, key, val) == raw_store(env, key, <<encode_i32(val)[1]>>)

\* TypedCell::store
typed_store(env, key, val) == raw_store(env, key, encode_i32(val))

\* TypedCell::clear
typed_clear(env, key) == raw_clear(env, key)

CellInit ==
    /\ envStorage = [k \in CellKeys |-> None]
    /\ ccall = [op |-> "new"]
    /\ clast = [k \in CellKeys |-> [op |-> "never", stores |-> 0]]
    /\ cellOps = 0

\* a call of TypedCell::load on the cell at `key`
CellLoad(key) ==
    /\ cellOps < MaxCellOps
    /\ cellOps' = cellOps + 1
    /\ ccall' = [op |-> "load", key |-> key, ret |-> typed_load(envStorage, key)]
    /\ UNCHANGED <<envStorage, clast>>
    /\ UNCHANGED <<mapVars, stashVars, twinVars, debug, iterVars, ercVars>>

\* a call of TypedCell::store on the cell at `key`
CellStore(key, val) ==
    /\ cellOps < MaxCellOps
    /\ cellOps' = cellOps + 1
    /\ envStorage' = typed_store(envStorage, key, val)
    /\ ccall' = [op |-> "store", key |-> key, val |-> val]
    /\ clast' = [clast EXCEPT ![key] =
                    [op |-> "store", val |-> val, stores |-> clast[key].stores + 1]]
    /\ UNCHANGED <<mapVars, stashVars, twinVars, debug, iterVars, ercVars>>

\* a call of TypedCell::clear on the cell at `key`
CellClear(key) ==
    /\ cellOps < MaxCellOps
    /\ cellOps' = cellOps + 1
    /\ envStorage' = typed_clear(envStorage, key)
    /\ ccall' = [op |-> "clear", key |-> key]
    /\ clast' = [clast EXCEPT ![key] = [op |-> "clear", stores |-> clast[key].stores]]
    /\ UNCHANGED <<mapVars, stashVars, twinVars, debug, iterVars, ercVars>>

CellNext ==
    \/ \E key \in CellKeys : CellLoad(key)
    \/ \E key \in CellKeys, val \in CellVals : CellStore(key, val)
    \/ \E key \in CellKeys : CellClear(key)

(***************************************************************************)
(* The ERC-20 example contract.  A call instantiates the token over the    *)
(* contract storage, runs one action on the in-memory token and flushes    *)
(* it; a call that panics traps before its flush.                          *)
(*                                                                         *)
(* Balance is an unsigned integer of the environment's width w.  An        *)
(* integer x >= 0 stands for the balance x and x < 0 for 2^w + x, so that  *)
(* wrapping arithmetic near 0 and near 2^w is exact.                       *)
(***************************************************************************)
Accounts == {"alice", "bob"}
Amounts == 0 .. 3

\* a < b on Balance
BalanceLess(a, b) == IF (a < 0) = (b < 0) THEN a < b ELSE b < 0

\* the outcome of a step on the token `tok`: it panics, or goes on with `tok`
Trap(tok, why) == [trap |-> TRUE, tok |-> tok, why |-> why]
Ok(tok, r) == [trap |-> FALSE, tok |-> tok, ret |-> r]

\* `x -= value` on a Balance: overflow panics in a build with overflow
\* checks and wraps in a build without
sub_assign(x, value, dbg) ==
    IF BalanceLess(x, value) /\ dbg THEN None ELSE Some(x - value)

\* `x += value` on a Balance
add_assign(x, value, dbg) ==
    IF x < 0 /\ x + value >= 0 /\ dbg THEN None ELSE Some(x + value)

\* storage::HashMap::get, insert, and the `map[&key]` of Index / IndexMut,
\* which is None here when it panics (no entry for the key)
hm_get(map, key) == map[key]
hm_insert(map, key, val) == [map EXCEPT ![key] = Some(val)]
hm_index(map, key) == map[key]

\* Erc20Token::allocate_using on storage that the contract never wrote
EmptyToken ==
    [balances |-> [a \in Accounts |-> None],
     allowances |-> [p \in Accounts \X Accounts |-> None],
     total_supply |-> None]

\* Erc20Token::total_supply (the dereference of an unset storage::Value panics)
total_supply(tok) ==
    IF tok.total_supply.some THEN Ok(tok, tok.total_supply.val)
    ELSE Trap(tok, "total_supply")

\* Erc20Token::balance_of
balance_of(tok, owner) == unwrap_or(hm_get(tok.balances, owner), 0)

\* Erc20Token::allowance
allowance(tok, owner, spender) ==
    unwrap_or(hm_get(tok.allowances, <<owner, spender>>), 0)

\* Erc20Token::approve
approve(tok, caller, spender, value) ==
    Ok([tok EXCEPT !.allowances = hm_insert(tok.allowances, <<caller, spender>>, value)],
       TRUE)

\* Erc20Token::transfer_impl
transfer_impl(tok, from, to, value, dbg) ==
    LET payer == hm_index(tok.balances, from)
    IN  IF ~payer.some THEN Trap(tok, "balances[&from]")
        ELSE LET less == sub_assign(payer.val, value, dbg)
             IN  IF ~less.some THEN Trap(tok, "balances[&from] -= value")
                 ELSE LET tok1 == [tok EXCEPT !.balances[from] = less]
                          payee == hm_index(tok1.balances, to)
                      IN  IF ~payee.some THEN Trap(tok1, "balances[&to]")
                          ELSE LET more == add_assign(payee.val, value, dbg)
                               IN  IF ~more.some
                                   THEN Trap(tok1, "balances[&to] += value")
                                   ELSE Ok([tok1 EXCEPT !.balances[to] = more], TRUE)

\* Erc20Token::transfer
transfer(tok, caller, to, value, dbg) == transfer_impl(tok, caller, to, value, dbg)

\* Erc20Token::transfer_from
transfer_from(tok, from, to, value, dbg) ==
    LET allowed == hm_index(tok.allowances, <<from, to>>)
    IN  IF ~allowed.some THEN Trap(tok, "allowances[&(from, to)]")
        ELSE LET less == sub_assign(allowed.val, value, dbg)
             IN  IF ~less.some THEN Trap(tok, "allowances[&(from, to)] -= value")
                 ELSE transfer_impl([tok EXCEPT !.allowances[<<from, to>>] = less],
                                    from, to, value, dbg)

\* Erc20Token::flush: the storage holds what the token holds
flush(tok) == tok

\* call as it would be if each statement of an action were written through
\* to the storage at once
call_writing_through(store, r) ==
    [store |-> flush(r.tok), trap |-> r.trap, cache |-> r.tok,
     ret |-> IF r.trap THEN None ELSE Some(r.ret)]

\* call: the outcome r of the action on the instantiated token, then flush
\* and ret(ret_val) unless the action panicked
call_outcome(store, r) ==
    [store |-> IF r.trap THEN store ELSE flush(r.tok),
     trap |-> r.trap, cache |-> r.tok,
     ret |-> IF r.trap THEN None ELSE Some(r.ret)]

\* deploy: instantiate().initialize_into(()).flush(), which mints nothing
ErcInit ==
    /\ durable = flush(EmptyToken)
    /\ ecall = [op |-> "deploy", args |-> <<>>, trap |-> FALSE,
                cache |-> EmptyToken, ret |-> None]
    /\ ercOps = 0

\* call: decode_params gave the action `op` with `args`, whose outcome on
\* the instantiated token is r
call_action(op, args, r) ==
    /\ ercOps' = ercOps + 1
    /\ LET c == call_outcome(durable, r)
       IN  /\ durable' = c.store
           /\ ecall' = [op |-> op, args |-> args, trap |-> c.trap,
                        cache |-> c.cache, ret |-> c.ret]
    /\ UNCHANGED <<mapVars, stashVars, twinVars, debug, iterVars, cellVars>>

\* Action::TotalSupply
ErcTotalSupply ==
    /\ ercOps < MaxErcOps
    /\ call_action("total_supply", <<>>, total_supply(durable))

\* Action::BalanceOf
ErcBalanceOf(owner) ==
    /\ ercOps < MaxErcOps
    /\ call_action("balance_of", <<owner>>, Ok(durable, balance_of(durable, owner)))

\* Action::Allowance
ErcAllowance(owner, spender) ==
    /\ ercOps < MaxErcOps
    /\ call_action("allowance", <<owner, spender>>,
                   Ok(durable, allowance(durable, owner, spender)))

\* Action::Transfer, sent by `caller`
ErcTransfer(caller, to, value) ==
    /\ ercOps < MaxErcOps
    /\ call_action("transfer", <<caller, to, value>>,
                   transfer(durable, caller, to, value, debug))

\* Action::Approve, sent by `caller`
ErcApprove(caller, spender, value) ==
    /\ ercOps < MaxErcOps
    /\ call_action("approve", <<caller, spender, value>>,
                   approve(durable, caller, spender, value))

\* Action::TransferFrom
ErcTransferFrom(from, to, value) ==
    /\ ercOps < MaxErcOps
    /\ call_action("transfer_from", <<from, to, value>>,
                   transfer_from(durable, from, to, value, debug))

ErcNext ==
    \/ ErcTotalSupply
    \/ \E owner \in Accounts : ErcBalanceOf(owner)
    \/ \E owner \in Accounts, spender \in Accounts : ErcAllowance(owner, spender)
    \/ \E caller \in Accounts, to \in Accounts, value \in Amounts :
           ErcTransfer(caller, to, value)
    \/ \E caller \in Accounts, spender \in Accounts, value \in Amounts :
           ErcApprove(caller, spender, value)
    \/ \E from \in Accounts, to \in Accounts, value \in Amounts :
           ErcTransferFrom(from, to, value)

(***************************************************************************)
(* Specifications: one per component, the others left in their initial     *)
(* state.                                                                  *)
(***************************************************************************)
Init ==
    /\ MapInit
    /\ StashInit
    /\ TwinInit
    /\ IterInit
    /\ CellInit
    /\ ErcInit
    /\ debug \in BOOLEAN

MapSpec == Init /\ [][MapNext]_vars

StashSpec == Init /\ [][StashNext]_vars

TwinSpec == Init /\ [][TwinNext]_vars

IterSpec == Init /\ [][IterSpecNext]_vars

CellSpec == Init /\ [][CellNext]_vars

ErcSpec == Init /\ [][ErcNext]_vars

(***************************************************************************)
(* StorageMap properties                                                   *)
(***************************************************************************)
\* the keys whose last operation was insert
Present == {i \in KeyIds : last[i].some}

\* the slots that hold an Occupied entry
OccupiedSlots == {n \in DOMAIN entries : entries[n].tag = "Occupied"}

\* the slot at index n holds an Occupied entry for the key id
HoldsKey(n, id) ==
    /\ n \in DOMAIN entries
    /\ entries[n].tag = "Occupied"
    /\ entries[n].key.id = id

\* a call of the map was made in this step
MapCall(op) == mapOps' = mapOps + 1 /\ call'.op = op

\* the probe start shared by A, B and D, and the first quadratic offset past it
StartA == bytes_to_u32(keccak256_4([id |-> "A", tag |-> 0]))
FirstOffsetA == wrapping_add(StartA, 1)

\* C1: after any sequence of insert and remove calls on a map that starts
\* empty, get(k) returns Some(v) when the last operation on k was
\* insert(k, v), and returns None when it was remove(k) or k was never
\* inserted.
C1_GetReflectsLastOperation ==
    ~hung => \A k \in MapKeys : get(entries, k) = Returns(last[k.id])

\* C2: len() equals the number of keys whose last operation was insert, which
\* is the number of Occupied entries, and is_empty() is true exactly when that
\* number is 0.
C2_LenCountsPresentKeys ==
    ~hung =>
        /\ MapLen = Cardinality(Present)
        /\ MapLen = Cardinality(OccupiedSlots)
        /\ MapIsEmpty <=> (Cardinality(Present) = 0)

\* C3: when key k is present with value v1, insert(k, v2) returns Some(v1),
\* leaves get(k) = Some(v2) and leaves len() unchanged.
C3_OverwriteReturnsOldValue ==
    [][(MapCall("insert") /\ last[call'.key.id].some) =>
          /\ ret' = last[call'.key.id]
          /\ get(entries', call'.key) = Returns(Some(call'.val))
          /\ MapLen' = MapLen]_vars

\* C4: round trip.  After insert(k, v), get(k) returns Some(v); a following
\* remove(k) returns Some(v) and then get(k) returns None; a following
\* insert(k, v2) returns None and then get(k) returns Some(v2).
C4_RoundTrip ==
    [][/\ MapCall("insert") =>
            get(entries', call'.key) = Returns(Some(call'.val))
       /\ (call.op = "insert" /\ MapCall("remove") /\ KeyEq(call'.key, call.key)) =>
            /\ ~hung'
            /\ ret' = Some(call.val)
            /\ get(entries', call'.key) = Returns(None)
       /\ (call.op = "remove" /\ ret.some /\ MapCall("insert")
             /\ KeyEq(call'.key, call.key)) =>
            /\ ret' = None
            /\ get(entries', call'.key) = Returns(Some(call'.val))]_vars

\* C5: collision scenario.  A and B, with the same probe start s, inserted in
\* that order into an empty map are stored at s and at s + 1; after remove(A),
\* insert(D) with the same probe start stores D at s; and get(B) returns B's
\* value after each of these steps.
C5_CollisionScenario ==
    /\ stage \in {1, 2} => HoldsKey(StartA, "A")
    /\ stage \in {2, 3, 4} =>
          /\ HoldsKey(FirstOffsetA, "B")
          /\ get(entries, [id |-> "B", tag |-> 0]) = Returns(last["B"])
    /\ stage = 4 => HoldsKey(StartA, "D")

\* C6: remove(k) of a key that is not present returns None and changes
\* nothing: every slot, len() and the result of get for every other key are
\* as before the call.
C6_RemoveAbsentIsNoOp ==
    [][(MapCall("remove") /\ ~last[call'.key.id].some) =>
          /\ ~hung'
          /\ ret' = None
          /\ entries' = entries
          /\ MapLen' = MapLen
          /\ \A k \in MapKeys : get(entries', k) = get(entries, k)]_vars

(***************************************************************************)
(* Stash properties                                                        *)
(***************************************************************************)
\* a call of the stash was made in this step and returned
StashCall(op) == stashOps' = stashOps + 1 /\ scall'.op = op /\ ~panicked'

\* C7: two stashes that start empty and are fed the same sequence of put and
\* take calls, with values of their own in the puts, return the same index
\* from every put, agree on Some/None for every take, abort the same calls,
\* and have equal next_vacant, len and max_len after every step.
C7_TandemDeterminism ==
    /\ next_vacant(primary) = next_vacant(replica)
    /\ stash_len(primary) = stash_len(replica)
    /\ max_len(primary) = max_len(replica)
    /\ tcall.op # "new" =>
          /\ tcall.first.panic = tcall.second.panic
          /\ (tcall.op = "put" /\ ~tcall.first.panic /\ ~tcall.second.panic) =>
                tcall.first.ret = tcall.second.ret
          /\ (tcall.op = "take" /\ ~tcall.first.panic /\ ~tcall.second.panic) =>
                tcall.first.ret.some = tcall.second.ret.some

\* a put into a slot freed by an earlier take gave both stashes the same
\* index, where they now hold different values
C7_Witness ==
    /\ tcall.op = "put"
    /\ ~tcall.first.panic /\ ~tcall.second.panic
    /\ tcall.first.ret = tcall.second.ret
    /\ tcall.first.ret + 1 < max_len(primary)
    /\ stash_get(primary, tcall.first.ret).some
    /\ stash_get(primary, tcall.first.ret) # stash_get(replica, tcall.second.ret)

\* C8: if put(a) returns i and take(i) is called next, the next put(b)
\* returns i again and does not extend max_len.
C8_FreedSlotReused ==
    [][(sprev.op = "put" /\ scall.op = "take" /\ ~panicked /\ scall.n = sprev.ret
          /\ stashOps' = stashOps + 1 /\ scall'.op = "put") =>
          /\ ~panicked'
          /\ scall'.ret = scall.n
          /\ max_len(stash') = max_len(stash)]_vars

\* C9: every index returned by a put is strictly less than max_len() as it
\* is right after that put, and len() <= max_len() in every reachable state.
C9_IndexBelowMaxLen ==
    /\ (scall.op = "put" /\ ~panicked) => scall.ret < max_len(stash)
    /\ stash_len(stash) <= max_len(stash)

\* a put has just reused a freed slot below the high-water mark, and the
\* stash holds fewer items than max_len
C9_Witness ==
    /\ scall.op = "put" /\ ~panicked
    /\ sprev.op = "take" /\ sprev.ret.some
    /\ scall.ret + 1 < max_len(stash)
    /\ stash_len(stash) >= 1
    /\ stash_len(stash) < max_len(stash)

\* C10: every index returned by put is strictly less than the largest number
\* of items the stash has held at the same time, that put included.
C10_IndexBelowPeakItems ==
    (scall.op = "put" /\ ~panicked) => scall.ret < peak

\* the indices of the Occupied entries
OccupiedIndices(st) == {n \in DOMAIN st.entries : st.entries[n].tag = "Occupied"}

\* the pairs (index, value) of the Occupied entries, by ascending index
RECURSIVE Ascending(_, _)
Ascending(st, S) ==
    IF S = {} THEN <<>>
    ELSE LET n == CHOOSE n \in S : \A m \in S : n <= m
         IN  <<(<<n, st.entries[n].val>>)>> \o Ascending(st, S \ {n})

\* the same pairs by descending index
RECURSIVE Descending(_, _)
Descending(st, S) ==
    IF S = {} THEN <<>>
    ELSE LET n == CHOOSE n \in S : \A m \in S : n >= m
         IN  <<(<<n, st.entries[n].val>>)>> \o Descending(st, S \ {n})

\* the stash after put(10), put(20), take(0), put(30)
ScenarioEntries == (0 :> StashOccupied(30)) @@ (1 :> StashOccupied(20))

\* C11: for every stash reachable by put and take, a full forward iteration
\* yields exactly the pairs (index, value) of the occupied indices in strictly
\* ascending index order and a full backward iteration yields them in
\* descending order; after put(10), put(20), take(0), put(30) these are
\* (0,30),(1,20) and (1,20),(0,30).
C11_IterationInIndexOrder ==
    /\ DrainNext(iter_new(istash), istash) = Ascending(istash, OccupiedIndices(istash))
    /\ DrainNextBack(iter_new(istash), istash)
           = Descending(istash, OccupiedIndices(istash))
    /\ istash.entries = ScenarioEntries =>
          /\ DrainNext(iter_new(istash), istash) = << <<0, 30>>, <<1, 20>> >>
          /\ DrainNextBack(iter_new(istash), istash) = << <<1, 20>>, <<0, 30>> >>

\* the scenario stash after put(10), put(20), take(0), put(30), iterated to
\* its end
C11_Witness ==
    /\ iterOps = 4 /\ iterPuts = 3
    /\ istash.entries = ScenarioEntries
    /\ iter.some /\ iter.val.yielded = 2 /\ ~item.some

\* C12: at every point of an iteration, size_hint is (r, Some(r)) with
\* r = len() - yielded, and r is the number of items that further calls of
\* next, or of next_back, will still yield.
C12_SizeHintExact ==
    iter.some =>
        LET r == stash_len(istash) - iter.val.yielded
        IN  /\ size_hint(iter.val, istash) = <<r, Some(r)>>
            /\ Len(DrainNext(iter.val, istash)) = r
            /\ Len(DrainNextBack(iter.val, istash)) = r

\* C15: get(k) for a key that no Occupied entry of the map holds returns, and
\* returns None.
C15_GetAbsentReturnsNone ==
    [][(/\ MapCall("get")
        /\ ~\E n \in OccupiedSlots : KeyEq(entries[n].key, call'.key))
       => (~hung' /\ ret' = None)]_vars

\* C16: len() equals the number of indices n for which get(n) is Some, the
\* number of Occupied entries.
C16_LenCountsOccupied ==
    /\ stash_len(stash) = Items(stash)
    /\ stash_len(stash)
         = Cardinality({n \in (DOMAIN stash.entries) \cup (0 .. max_len(stash)) :
                            stash_get(stash, n).some})

\* the chain of Vacant entries that starts at index n and follows the next
\* links, as far as it goes without meeting an index twice
RECURSIVE FreeChain(_, _, _)
FreeChain(st, n, seen) ==
    LET e == ChunkGet(st.entries, n)
    IN  IF e.some /\ e.val.tag = "Vacant" /\ n \notin seen
        THEN <<n>> \o FreeChain(st, e.val.next, seen \cup {n})
        ELSE <<>>

\* the free list: the chain that starts at next_vacant
FreeList(st) == FreeChain(st, next_vacant(st), {})

\* the index the last entry of the free list links to (next_vacant if empty)
FreeListEnd(st) ==
    LET fl == FreeList(st)
    IN  IF fl = <<>> THEN next_vacant(st) ELSE st.entries[fl[Len(fl)]].next

\* C17: every index in [0, max_len) is either Occupied or a Vacant entry on
\* the chain of Vacant(next) links that starts at next_vacant; that chain has
\* exactly max_len - len entries and visits no index twice.
C17_FreeListInvariant ==
    LET fl == FreeList(stash)
        free == {fl[i] : i \in 1 .. Len(fl)}
    IN  /\ \A n \in 0 .. max_len(stash) - 1 :
               stash_get(stash, n).some \/ n \in free
        /\ Len(fl) = max_len(stash) - stash_len(stash)
        /\ FreeListEnd(stash) \notin free

NoElementAt(st, n) ==
    LET e == ChunkGet(st.entries, n)
    IN  IF e.some THEN e.val.tag = "Vacant" ELSE TRUE

\* C19: take(n) on a slot that is Vacant or was never written (n >= max_len
\* and a second take of the same index included) returns None and leaves
\* next_vacant, len, max_len and the entries unchanged.
C19_TakeOfNothingIsNoOp ==
    [][(StashCall("take") /\ NoElementAt(stash, scall'.n))
       => /\ scall'.ret = None
          /\ next_vacant(stash') = next_vacant(stash)
          /\ stash_len(stash') = stash_len(stash)
          /\ max_len(stash') = max_len(stash)
          /\ stash'.entries = stash.entries
          /\ stash' = stash]_vars

\* a second take of an index whose first take returned the element, in a
\* stash that still holds other elements
C19_Witness ==
    /\ scall.op = "take" /\ sprev.op = "take"
    /\ scall.n = sprev.n
    /\ sprev.ret.some /\ ~scall.ret.some
    /\ Items(stash) >= 1
    /\ ~panicked

\* C20: next_vacant <= len in every reachable state, so that the
\* debug_assert at the start of put holds on every call.
C20_NextVacantAtMostLen ==
    next_vacant(stash) <= stash_len(stash)

\* what load() of the cell at `key` is to return, by the cell's last store or clear
Expected(key) == IF clast[key].op = "store" THEN Some(clast[key].val) ELSE None

\* C13: load() on a cell that was never stored returns None, and after any
\* sequence of store and clear calls load() returns Some(v) when the last of
\* them was store(&v) and None when it was clear().
C13_TypedCellRoundTrip ==
    /\ \A key \in CellKeys : typed_load(envStorage, key) = Expected(key)
    /\ ccall.op = "load" => ccall.ret = Expected(ccall.key)

\* the test's cell read back as None after store then clear, while the other
\* cell still reads back the negative value stored in it
C13_Witness ==
    /\ ccall.op = "load" /\ ccall.key = "0x42" /\ ccall.ret = None
    /\ clast["0x42"].op = "clear" /\ clast["0x42"].stores = 1
    /\ typed_load(envStorage, "0x07") = Some(0 - 129)

\* a call of the contract was made in this step
ErcCalled(op) == ercOps' = ercOps + 1 /\ ecall'.op = op

FoundSlot(inserting) == probe(entries, call'.key, inserting)

\* C21: remove(k) of a present key returns the removed value and replaces
\* the Occupied slot with the Removed tombstone: the slot that held k reads
\* back as Entry::Removed, which a never-written slot does not.
C21_RemoveLeavesTombstone ==
    [][(/\ MapCall("remove")
        /\ ~hung'
        /\ FoundSlot(FALSE).kind = "match")
       => /\ ret' = Some(entries[FoundSlot(FALSE).index].val)
          /\ ChunkGet(entries', FoundSlot(FALSE).index) = Some(Removed)
          /\ ChunkGet(entries', FoundSlot(FALSE).index) # None]_vars

\* C22: when insert(k2, v2) finds an Occupied entry whose key k1 is equal to
\* k2 without being identical, it returns the old value and stores v2, and
\* the key stored in the entry remains k1.
C22_InsertKeepsStoredKey ==
    [][(/\ MapCall("insert")
        /\ FoundSlot(TRUE).kind = "match"
        /\ entries[FoundSlot(TRUE).index].key # call'.key)
       => /\ ret' = Some(entries[FoundSlot(TRUE).index].val)
          /\ entries'[FoundSlot(TRUE).index].val = call'.val
          /\ entries'[FoundSlot(TRUE).index].key
                 = entries[FoundSlot(TRUE).index].key]_vars

\* C23: put never destroys a stored element: it never returns an index that
\* is occupied, and every index that held an element before the put holds
\* the same element after it.
C23_PutKeepsStoredElements ==
    [][StashCall("put")
       => /\ ~stash_get(stash, scall'.ret).some
          /\ \A n \in DOMAIN stash.entries :
                 stash_get(stash, n).some
                     => stash_get(stash', n) = stash_get(stash, n)]_vars

\* C24: no put and no take on a stash that starts empty aborts.
C24_NoCallAborts ==
    ~panicked

\* C25: no two slots of the map hold Occupied entries with equal keys.
C25_OneEntryPerKey ==
    \A n \in OccupiedSlots : \A m \in OccupiedSlots :
        KeyEq(entries[n].key, entries[m].key) => n = m

====
